---- MODULE Spec2Model ----
(***************************************************************************)
(* Model of run.py: the IOPS test of the SNIA SSS PTS (function iops) and  *)
(* the steady state check (function in_steady_state).                      *)
(*                                                                         *)
(* Numbers.  run.py computes with Python floats.  The model computes with  *)
(* exact integers: every comparison  a >= c * b  of the source with a      *)
(* decimal constant c is cross-multiplied (0.2 = 1/5, 0.1 = 1/10), and the *)
(* blended IOPS of a cell is kept in hundredths (100 * iops), which is an  *)
(* integer whenever fio reports integer rates.  Samples are integers.      *)
(* Rounding of the binary floating point operations is not modelled.       *)
(***************************************************************************)
EXTENDS Integers, Sequences, FiniteSets, TLC

(***************************************************************************)
(* Program constants                                                       *)
(***************************************************************************)
MEASUREMENT_WINDOW == 5

MAX_ROUNDS == 25

\* faulty loop: the last two read rates are swapped
READ_RATES_swapped == <<100, 95, 65, 50, 35, 0, 5>>

\* for rr in 100, 95, 65, 50, 35, 5, 0
READ_RATES == <<100, 95, 65, 50, 35, 5, 0>>

\* for bs in "1024k", "128k", "64k", "32k", "16k", "8k", "4k", "512b"
BLOCK_SIZES == <<"1024k", "128k", "64k", "32k", "16k", "8k", "4k", "512b">>

(***************************************************************************)
(* Bounds of the model                                                     *)
(***************************************************************************)
\* longest list handed to in_steady_state by the evaluation harness
MaxLen == 6

\* samples of the harness are  sample_base + d * sample_step, |d| <= MaxDev
MaxDev == 2

\* most values put before a measurement window to make another list of it
MaxPrefix == 2

\* most lines in the output of a run of nvme get-feature
MaxLines == 2

\* rates (IOPS) of the device under test: normal, degraded, stalled
NominalRate == 100

DegradedRate == 90

StalledRate == 0

VARIABLES
    \* ---- iops(args) ----
    pc,                 \* position in iops()
    args_dev,           \* args.dev
    args_test,          \* args.test
    args_mode,          \* args.mode
    round_num,          \* loop variable of "for round_num in range(1, 26)"
    rr_i,               \* position of the rr loop in READ_RATES
    bs_i,               \* position of the bs loop in BLOCK_SIZES
    rr0_4k_iops,        \* Steady State Tracking Variables
    rr65_64k_iops,
    rr100_1024k_iops,
    journal,            \* the messages logged by the loop control
    dev_rate,           \* environment: rate the device serves each tracked cell at
    dev_shifted,        \* environment: the device has changed a rate
    physical_size,      \* test conditions, set before the loop (sizes in KiB)
    active_range,
    queue_depth,
    thread_count,
    runtime,
    io_size,
    seed,
    purge_runs,         \* history: completed runs of nvme format
    wipc_runs,          \* history: completed runs of the WIPC job
    fio_runs,           \* history: completed runs of a WDPC job
    round_log,          \* history: the WDPC runs of the current round
    \* ---- a second session of iops(args), run side by side ----
    twin,               \* its position, round, WDPC runs and error log
    \* ---- in_steady_state(values, window_size) called on its own ----
    ev_pc,
    ev_values,
    ev_window,
    ev_result,
    ev_log,
    sample_base,
    sample_step

confvars == <<physical_size, active_range, queue_depth, thread_count, runtime,
              io_size, seed>>

histvars == <<purge_runs, wipc_runs, fio_runs, round_log>>

svars == <<pc, args_dev, args_test, args_mode, round_num, rr_i, bs_i,
           rr0_4k_iops,
           rr65_64k_iops, rr100_1024k_iops, journal, dev_rate, dev_shifted,
           physical_size, active_range, queue_depth, thread_count, runtime,
           io_size, seed, purge_runs, wipc_runs, fio_runs, round_log>>

evars == <<ev_pc, ev_values, ev_window, ev_result, ev_log, sample_base,
           sample_step>>

vars == <<pc, args_dev, args_test, args_mode, round_num, rr_i, bs_i,
          rr0_4k_iops,
          rr65_64k_iops, rr100_1024k_iops, journal, dev_rate, dev_shifted,
          physical_size, active_range, queue_depth, thread_count, runtime,
          io_size, seed, purge_runs, wipc_runs, fio_runs, round_log,
          twin, ev_pc, ev_values, ev_window, ev_result, ev_log, sample_base,
          sample_step>>

(***************************************************************************)
(* Arithmetic on lists                                                     *)
(***************************************************************************)
RECURSIVE SumSeq(_)
SumSeq(s) == IF s = <<>> THEN 0 ELSE Head(s) + SumSeq(Tail(s))

RECURSIVE MaxSeq(_)
MaxSeq(s) ==
    IF Len(s) = 1 THEN s[1]
    ELSE LET m == MaxSeq(Tail(s)) IN IF s[1] >= m THEN s[1] ELSE m

RECURSIVE MinSeq(_)
MinSeq(s) ==
    IF Len(s) = 1 THEN s[1]
    ELSE LET m == MinSeq(Tail(s)) IN IF s[1] <= m THEN s[1] ELSE m

Abs(n) == IF n < 0 THEN -n ELSE n

\* the list of the products x[i] * y[i]
Products(x, y) == [i \in 1..Len(x) |-> x[i] * y[i]]

(***************************************************************************)
(* in_steady_state                                                         *)
(***************************************************************************)
\* faulty window: "values[:window_size]", the first values of the list
LastValues_first(values, window_size) == SubSeq(values, 1, window_size)

\* yvalues = values[-window_size:]
LastValues(values, window_size) ==
    SubSeq(values, Len(values) - window_size + 1, Len(values))

\* xvalues = list(range(len(values) - window_size + 1, len(values) + 1))
XValues(values, window_size) ==
    [i \in 1..window_size |-> Len(values) - window_size + i]

\* yrange = max(yvalues) - min(yvalues)
YRange(yvalues) == MaxSeq(yvalues) - MinSeq(yvalues)

\* faulty check a): "yrange > 0.2 * yavg"
RangeCheckFails_strict(yvalues) ==
    5 * Len(yvalues) * YRange(yvalues) > SumSeq(yvalues)

\* yrange >= 0.2 * yavg, with yavg = sum(yvalues) / n:  5 * n * yrange >= sum
RangeCheckFails(yvalues) ==
    5 * Len(yvalues) * YRange(yvalues) >= SumSeq(yvalues)

\* faulty covariance: the mean of x is not taken off
SlopeNum_uncentered(xvalues, yvalues) ==
    Len(xvalues) * SumSeq(Products(xvalues, yvalues)) - SumSeq(yvalues)

\* stats.linregress: slope = ssxym / ssxm, the covariance of x and y over the
\* variance of x; both carry the factor 1 / n^2, which is dropped here:
\*   ssxym * n^2 = n * sum(x*y) - sum(x) * sum(y)
\*   ssxm  * n^2 = n * sum(x*x) - sum(x)^2
SlopeNum(xvalues, yvalues) ==
    Len(xvalues) * SumSeq(Products(xvalues, yvalues))
        - SumSeq(xvalues) * SumSeq(yvalues)

SlopeDen(xvalues) ==
    Len(xvalues) * SumSeq(Products(xvalues, xvalues))
        - SumSeq(xvalues) * SumSeq(xvalues)

\* faulty check b): "yrange_fit > 0.1 * yavg"
FitCheckFails_strict(xvalues, yvalues) ==
    10 * Len(yvalues) * (Len(yvalues) - 1) * Abs(SlopeNum(xvalues, yvalues))
        > SlopeDen(xvalues) * SumSeq(yvalues)

\* yrange_fit >= 0.1 * yavg, with yrange_fit = abs(slope) * (window_size - 1):
\*   abs(num) / den * (n - 1) >= sum / (10 * n), den > 0
FitCheckFails(xvalues, yvalues) ==
    10 * Len(yvalues) * (Len(yvalues) - 1) * Abs(SlopeNum(xvalues, yvalues))
        >= SlopeDen(xvalues) * SumSeq(yvalues)

\* faulty check a): "yrange / yavg >= 0.2" divides by a zero average
in_steady_state_raises_div(values, window_size) ==
    /\ Len(values) >= window_size
    /\ SumSeq(LastValues(values, window_size)) = 0

\* the call raises instead of returning: the only division by a computed
\* value is ssxym / ssxm in linregress, reached when check a) has passed
in_steady_state_raises(values, window_size) ==
    /\ Len(values) >= window_size
    /\ ~RangeCheckFails(LastValues(values, window_size))
    /\ SlopeDen(XValues(values, window_size)) = 0

\* faulty check: check b) is left out
in_steady_state_no_fit(values, window_size) ==
    IF Len(values) < window_size THEN FALSE
    ELSE ~RangeCheckFails(LastValues(values, window_size))

\* faulty check: a list that is too short is judged by the range of what
\* there is
in_steady_state_short(values, window_size) ==
    IF Len(values) < window_size
    THEN Len(values) > 0 /\ ~RangeCheckFails(values)
    ELSE LET yvalues == LastValues(values, window_size)
             xvalues == XValues(values, window_size)
         IN  IF RangeCheckFails(yvalues) THEN FALSE
             ELSE IF FitCheckFails(xvalues, yvalues) THEN FALSE
             ELSE TRUE

\* faulty check: "if len(values) <= window_size"
in_steady_state_late(values, window_size) ==
    IF Len(values) <= window_size THEN FALSE
    ELSE LET yvalues == LastValues(values, window_size)
             xvalues == XValues(values, window_size)
         IN  IF RangeCheckFails(yvalues) THEN FALSE
             ELSE IF FitCheckFails(xvalues, yvalues) THEN FALSE
             ELSE TRUE

in_steady_state(values, window_size) ==
    IF Len(values) < window_size THEN FALSE
    ELSE LET yvalues == LastValues(values, window_size)
             xvalues == XValues(values, window_size)
         IN  IF RangeCheckFails(yvalues) THEN FALSE
             ELSE IF FitCheckFails(xvalues, yvalues) THEN FALSE
             ELSE TRUE

\* the message in_steady_state logs before it returns
in_steady_state_log(values, window_size) ==
    IF Len(values) < window_size THEN "list too short"
    ELSE LET yvalues == LastValues(values, window_size)
             xvalues == XValues(values, window_size)
         IN  IF RangeCheckFails(yvalues) THEN "a) failed"
             ELSE IF FitCheckFails(xvalues, yvalues) THEN "b) failed"
             ELSE "all checks passed, in steady state"

(***************************************************************************)
(* The device under test and fio                                           *)
(***************************************************************************)
Rates == {StalledRate, DegradedRate, NominalRate}

\* the cells whose IOPS are tracked, by the name of their list
TrackedCells == {"rr0_4k", "rr65_64k", "rr100_1024k"}

\* faulty match: the block size of the 0% read cell is not compared
TrackedCell_any_bs(rr, bs) ==
    IF rr = 0 THEN "rr0_4k"
    ELSE IF (rr = 65) /\ (bs = "64k") THEN "rr65_64k"
    ELSE IF (rr = 100) /\ (bs = "1024k") THEN "rr100_1024k"
    ELSE "none"

\* faulty match: the lists of the 0% and the 65% read cell are crossed
TrackedCell_crossed(rr, bs) ==
    IF (rr = 0) /\ (bs = "4k") THEN "rr65_64k"
    ELSE IF (rr = 65) /\ (bs = "64k") THEN "rr0_4k"
    ELSE IF (rr = 100) /\ (bs = "1024k") THEN "rr100_1024k"
    ELSE "none"

\* the tracked cell a (rr, bs) pair is, "none" for the other 53
\*   if (rr == 0) and (bs == "4k") ... elif (rr == 65) and (bs == "64k") ...
\*   elif (rr == 100) and (bs == "1024k")
TrackedCell(rr, bs) ==
    IF (rr = 0) /\ (bs = "4k") THEN "rr0_4k"
    ELSE IF (rr = 65) /\ (bs = "64k") THEN "rr65_64k"
    ELSE IF (rr = 100) /\ (bs = "1024k") THEN "rr100_1024k"
    ELSE "none"

\* fio_result["jobs"][0]["read"]["iops"]: a job without reads reports 0
FioReadIops(rr, rate) == IF rr = 0 THEN 0 ELSE rate

\* fio_result["jobs"][0]["write"]["iops"]: a job without writes reports 0
FioWriteIops(rr, rate) == IF rr = 100 THEN 0 ELSE rate

\* faulty blend: the weights of reads and writes are swapped
BlendedIops_swapped(rr, read_iops, write_iops) ==
    (100 - rr) * read_iops + rr * write_iops

\* iops = (rr / 100.0) * read iops + (1 - rr / 100.0) * write iops,
\* in hundredths: 100 * iops
BlendedIops(rr, read_iops, write_iops) ==
    rr * read_iops + (100 - rr) * write_iops

\* the device serves every cell at the nominal rate, except that at most one
\* tracked cell is served at another rate, and that it changes the rate of a
\* cell at most once in a session
DeviceStates ==
    {d \in [TrackedCells -> Rates] :
        Cardinality({c \in TrackedCells : d[c] # NominalRate}) <= 1}

(***************************************************************************)
(* iops(args)                                                              *)
(***************************************************************************)
STEADY_MSG == "steady state, breaking the loop"

NOT_REACHED_MSG == "steady state was not reached in 25 rounds"

\* the device under test, args.dev
Devices == {"/dev/nvme0n1"}

SInit ==
    /\ pc = "record"
    /\ args_dev \in Devices
    /\ args_test \in BOOLEAN
    /\ args_mode \in {"PTS-C", "PTS-E"}
    /\ round_num = 0
    /\ rr_i = 0
    /\ bs_i = 0
    /\ rr0_4k_iops = <<>>
    /\ rr65_64k_iops = <<>>
    /\ rr100_1024k_iops = <<>>
    /\ journal = {}
    /\ dev_rate \in DeviceStates
    /\ dev_shifted = FALSE
    /\ physical_size = 0
    /\ active_range = 0
    /\ queue_depth = 0
    /\ thread_count = 0
    /\ runtime = "unset"
    /\ io_size = 0
    /\ seed = "unset"
    /\ purge_runs = 0
    /\ wipc_runs = 0
    /\ fio_runs = 0
    /\ round_log = <<>>

\* ns["PhysicalSize"] of the namespace under test, in bytes, as nvme list
\* reports it: 1000 KiB, and 1001 KiB and a sector
NamespaceBytes == {1024000, 1025536}

\* physical_size = int(ns["PhysicalSize"] / 1024)
PhysicalSizeKiB(bytes) == bytes \div 1024

\* what a line of the output of nvme get-feature is to get_nvme_features: a
\* line p1 matches, a line p2 matches, a line neither matches
LineKinds == {"header", "pair", "text"}

\* r.stdout.decode("utf8").splitlines() of a run of nvme get-feature
FeatureOutputs == UNION {[1..n -> LineKinds] : n \in 0..MaxLines}

\* get_nvme_features returns: p1 matches lines[0] and p2 every line after it;
\* with no line at all lines[0] raises
FeaturesMatch(lines) ==
    /\ Len(lines) > 0
    /\ lines[1] = "header"
    /\ \A i \in 2..Len(lines) : lines[i] = "pair"

\* logging.error("Unable to match: ...") of get_nvme_features
UNMATCHED_MSG == "Unable to match"

\* faulty session: the purge is left out when the feature has nothing but its
\* header line
AfterRecord_reads(lines) ==
    IF ~FeaturesMatch(lines) THEN "aborted"
    ELSE IF Len(lines) > 1 THEN "purge" ELSE "conditions"

\* where iops() is after the conditions are recorded, by the output of nvme
\* get-feature: at the purge, or out by sys.exit(1)
AfterRecord(lines) == IF FeaturesMatch(lines) THEN "purge" ELSE "aborted"

\* record test conditions: lshw, lspci, nvme id-ctrl, smart-log, module,
\* features, queue, nvme list; the physical size of the namespace
RecordConditionsOn(lines) ==
    /\ pc = "record"
    /\ FeaturesMatch(lines)
    /\ pc' = AfterRecord(lines)
    /\ \E bytes \in NamespaceBytes : physical_size' = PhysicalSizeKiB(bytes)
    /\ UNCHANGED <<args_dev,
                   args_test, args_mode, round_num, rr_i, bs_i, rr0_4k_iops,
                   rr65_64k_iops, rr100_1024k_iops, journal, dev_rate,
                   dev_shifted>>
    /\ UNCHANGED <<active_range, queue_depth, thread_count, runtime, io_size,
                   seed>>
    /\ UNCHANGED histvars

RecordConditions == \E lines \in FeatureOutputs : RecordConditionsOn(lines)

\* get_nvme_features cannot match a line of the output of nvme get-feature:
\* the error is logged and sys.exit(1) ends the session
FeaturesUnmatchedOn(lines) ==
    /\ pc = "record"
    /\ ~FeaturesMatch(lines)
    /\ journal' = journal \cup {UNMATCHED_MSG}
    /\ pc' = AfterRecord(lines)
    /\ UNCHANGED <<args_dev,
                   args_test, args_mode, round_num, rr_i, bs_i, rr0_4k_iops,
                   rr65_64k_iops, rr100_1024k_iops, dev_rate, dev_shifted>>
    /\ UNCHANGED confvars
    /\ UNCHANGED histvars

FeaturesUnmatched == \E lines \in FeatureOutputs : FeaturesUnmatchedOn(lines)

\* faulty purge: nvme format is run in test mode too
Purge_always ==
    /\ pc = "purge"
    /\ pc' = "conditions"
    /\ purge_runs' = purge_runs + 1
    /\ UNCHANGED <<args_dev,
                   args_test, args_mode, round_num, rr_i, bs_i, rr0_4k_iops,
                   rr65_64k_iops, rr100_1024k_iops, journal, dev_rate,
                   dev_shifted>>
    /\ UNCHANGED confvars
    /\ UNCHANGED <<wipc_runs, fio_runs, round_log>>

\* 1 Purge the device: nvme format, skipped in test mode
Purge ==
    /\ pc = "purge"
    /\ pc' = "conditions"
    /\ purge_runs' = IF ~args_test THEN purge_runs + 1 ELSE purge_runs
    /\ UNCHANGED <<args_dev,
                   args_test, args_mode, round_num, rr_i, bs_i, rr0_4k_iops,
                   rr65_64k_iops, rr100_1024k_iops, journal, dev_rate,
                   dev_shifted>>
    /\ UNCHANGED confvars
    /\ UNCHANGED <<wipc_runs, fio_runs, round_log>>

\* active_range = physical_size (PTS-E), int(0.75 * physical_size) (PTS-C)
ActiveRange(mode, size) == IF mode = "PTS-E" THEN size ELSE (3 * size) \div 4

\* queue_depth = 32 (PTS-E), 16 (PTS-C)
QueueDepth(mode) == IF mode = "PTS-E" THEN 32 ELSE 16

\* thread_count = 4 (PTS-E), 2 (PTS-C)
ThreadCount(mode) == IF mode = "PTS-E" THEN 4 ELSE 2

\* runtime = "10s" in test mode, "1m" otherwise
Runtime(test) == IF test THEN "10s" ELSE "1m"

\* io_size = int(2 * physical_size / thread_count), in KiB
IoSize(size, threads) == (2 * size) \div threads

\* seed = 0xDEADBEEF, kept as written
SEED == "0xDEADBEEF"

\* 2.1 Set and record test conditions: write cache, active range, queue depth,
\* thread count by args.mode; runtime by args.test; seed
SetConditions ==
    /\ pc = "conditions"
    /\ args_mode \in {"PTS-E", "PTS-C"}
    /\ pc' = "wipc"
    /\ active_range' = ActiveRange(args_mode, physical_size)
    /\ queue_depth' = QueueDepth(args_mode)
    /\ thread_count' = ThreadCount(args_mode)
    /\ runtime' = Runtime(args_test)
    /\ seed' = SEED
    /\ UNCHANGED <<args_dev,
                   args_test, args_mode, round_num, rr_i, bs_i, rr0_4k_iops,
                   rr65_64k_iops, rr100_1024k_iops, journal, dev_rate,
                   dev_shifted>>
    /\ UNCHANGED <<physical_size, io_size>>
    /\ UNCHANGED histvars

\* 2.2 workload independent pre-conditioning: the size of the job, the job,
\* run unless in test mode; then the three lists are initialized and the round
\* loop is entered with round 1, rr = 100, bs = "1024k"
Wipc ==
    /\ pc = "wipc"
    /\ pc' = "cell"
    /\ io_size' = IoSize(physical_size, thread_count)
    /\ wipc_runs' = IF args_test THEN wipc_runs ELSE wipc_runs + 1
    /\ round_num' = 1
    /\ rr_i' = 1
    /\ bs_i' = 1
    /\ rr0_4k_iops' = <<>>
    /\ rr65_64k_iops' = <<>>
    /\ rr100_1024k_iops' = <<>>
    /\ round_log' = <<>>
    /\ UNCHANGED <<args_dev,
                   args_test, args_mode, journal, dev_rate, dev_shifted>>
    /\ UNCHANGED <<physical_size, active_range, queue_depth, thread_count,
                   runtime, seed>>
    /\ UNCHANGED <<purge_runs, fio_runs>>

\* the rates the device may serve the cell at in this run
RunRates(cell) ==
    IF cell = "none" THEN {NominalRate}
    ELSE {r \in Rates :
            \/ r = dev_rate[cell]
            \/ /\ ~dev_shifted
               /\ \A c \in TrackedCells \ {cell} : dev_rate[c] = NominalRate}

\* faulty job: the queue depth is halved for the blocks of 1024k
WdpcJob_by_block(rr, bs) ==
    [device |-> args_dev,
     queue_depth |-> IF bs = "1024k" THEN queue_depth \div 2 ELSE queue_depth,
     thread_count |-> thread_count,
     seed |-> seed,
     size |-> active_range,
     read_rate |-> rr,
     block_size |-> bs,
     runtime |-> runtime]

\* render(WDPC_IOPS_JOB_TPL, device=args.dev, queue_depth=queue_depth, ...):
\* the job of a cell, size in KiB
WdpcJob(rr, bs) ==
    [device |-> args_dev,
     queue_depth |-> queue_depth,
     thread_count |-> thread_count,
     seed |-> seed,
     size |-> active_range,
     read_rate |-> rr,
     block_size |-> bs,
     runtime |-> runtime]

\* one pass of the body of the bs loop: smart-log, fio, smart-log, the blended
\* iops, the append to the list of a tracked cell; then the next bs, the next
\* rr, or the end of the round
RunCell ==
    /\ pc = "cell"
    /\ LET rr == READ_RATES[rr_i]
           bs == BLOCK_SIZES[bs_i]
           cell == TrackedCell(rr, bs)
       IN  \E rate \in RunRates(cell) :
             LET read_iops == FioReadIops(rr, rate)
                 write_iops == FioWriteIops(rr, rate)
                 iops == BlendedIops(rr, read_iops, write_iops)
             IN  /\ rr0_4k_iops' =
                       IF cell = "rr0_4k"
                       THEN Append(rr0_4k_iops, iops) ELSE rr0_4k_iops
                 /\ rr65_64k_iops' =
                       IF cell = "rr65_64k"
                       THEN Append(rr65_64k_iops, iops) ELSE rr65_64k_iops
                 /\ rr100_1024k_iops' =
                       IF cell = "rr100_1024k"
                       THEN Append(rr100_1024k_iops, iops)
                       ELSE rr100_1024k_iops
                 /\ round_log' =
                       Append(round_log,
                              [rr |-> rr, bs |-> bs, read |-> read_iops,
                               write |-> write_iops, iops |-> iops,
                               job |-> WdpcJob(rr, bs)])
                 /\ dev_rate' =
                       IF cell = "none" THEN dev_rate
                       ELSE [dev_rate EXCEPT ![cell] = rate]
                 /\ dev_shifted' =
                       IF cell = "none" THEN dev_shifted
                       ELSE dev_shifted \/ (rate # dev_rate[cell])
    /\ fio_runs' = fio_runs + 1
    /\ IF bs_i < Len(BLOCK_SIZES)
       THEN /\ bs_i' = bs_i + 1
            /\ UNCHANGED <<rr_i, pc>>
       ELSE IF rr_i < Len(READ_RATES)
       THEN /\ rr_i' = rr_i + 1
            /\ bs_i' = 1
            /\ UNCHANGED pc
       ELSE /\ pc' = "check"
            /\ UNCHANGED <<rr_i, bs_i>>
    /\ UNCHANGED <<args_dev, args_test, args_mode, round_num, journal>>
    /\ UNCHANGED confvars
    /\ UNCHANGED <<purge_runs, wipc_runs>>

\* faulty condition: the 100% read list is not checked
AllSteady_two ==
    /\ in_steady_state(rr0_4k_iops, MEASUREMENT_WINDOW)
    /\ in_steady_state(rr65_64k_iops, MEASUREMENT_WINDOW)

\* faulty condition: a measurement window of four rounds
AllSteady_window_4 ==
    /\ in_steady_state(rr0_4k_iops, 4)
    /\ in_steady_state(rr65_64k_iops, 4)
    /\ in_steady_state(rr100_1024k_iops, 4)

\* True when the three calls of in_steady_state after the round all return True
AllSteady ==
    /\ in_steady_state(rr0_4k_iops, MEASUREMENT_WINDOW)
    /\ in_steady_state(rr65_64k_iops, MEASUREMENT_WINDOW)
    /\ in_steady_state(rr100_1024k_iops, MEASUREMENT_WINDOW)

\* faulty loop: range(1, 27)
CheckSteadyState_one_more ==
    /\ pc = "check"
    /\ IF AllSteady
       THEN /\ journal' = journal \cup {STEADY_MSG}
            /\ pc' = "after_loop"
            /\ UNCHANGED <<round_num, rr_i, bs_i, round_log>>
       ELSE IF round_num <= MAX_ROUNDS
       THEN /\ round_num' = round_num + 1
            /\ rr_i' = 1
            /\ bs_i' = 1
            /\ round_log' = <<>>
            /\ pc' = "cell"
            /\ UNCHANGED journal
       ELSE /\ pc' = "after_loop"
            /\ UNCHANGED <<round_num, rr_i, bs_i, journal, round_log>>
    /\ UNCHANGED <<args_dev, args_test, args_mode, rr0_4k_iops, rr65_64k_iops,
                   rr100_1024k_iops, dev_rate, dev_shifted>>
    /\ UNCHANGED confvars
    /\ UNCHANGED <<purge_runs, wipc_runs, fio_runs>>

\* faulty check: the lists are cut down to the measurement window
CheckSteadyState_truncates ==
    /\ pc = "check"
    /\ IF AllSteady
       THEN /\ journal' = journal \cup {STEADY_MSG}
            /\ pc' = "after_loop"
            /\ UNCHANGED <<round_num, rr_i, bs_i, round_log>>
       ELSE IF round_num < MAX_ROUNDS
       THEN /\ round_num' = round_num + 1
            /\ rr_i' = 1
            /\ bs_i' = 1
            /\ round_log' = <<>>
            /\ pc' = "cell"
            /\ UNCHANGED journal
       ELSE /\ pc' = "after_loop"
            /\ UNCHANGED <<round_num, rr_i, bs_i, journal, round_log>>
    /\ rr0_4k_iops' =
          IF Len(rr0_4k_iops) > MEASUREMENT_WINDOW
          THEN LastValues(rr0_4k_iops, MEASUREMENT_WINDOW) ELSE rr0_4k_iops
    /\ UNCHANGED <<args_dev,
                   args_test, args_mode, rr65_64k_iops, rr100_1024k_iops,
                   dev_rate, dev_shifted>>
    /\ UNCHANGED confvars
    /\ UNCHANGED <<purge_runs, wipc_runs, fio_runs>>

\* faulty loop: "while True", left in steady state only
CheckSteadyState_goes_on ==
    /\ pc = "check"
    /\ IF AllSteady
       THEN /\ journal' = journal \cup {STEADY_MSG}
            /\ pc' = "after_loop"
            /\ UNCHANGED <<round_num, rr_i, bs_i, round_log>>
       ELSE /\ round_num' = round_num + 1
            /\ rr_i' = 1
            /\ bs_i' = 1
            /\ round_log' = <<>>
            /\ pc' = "cell"
            /\ UNCHANGED journal
    /\ UNCHANGED <<args_dev, args_test, args_mode, rr0_4k_iops, rr65_64k_iops,
                   rr100_1024k_iops, dev_rate, dev_shifted>>
    /\ UNCHANGED confvars
    /\ UNCHANGED <<purge_runs, wipc_runs, fio_runs>>

\* check steady state after the end of the round: break, or the next value of
\* range(1, 26), or the end of the range
CheckSteadyState ==
    /\ pc = "check"
    /\ IF AllSteady
       THEN /\ journal' = journal \cup {STEADY_MSG}
            /\ pc' = "after_loop"
            /\ UNCHANGED <<round_num, rr_i, bs_i, round_log>>
       ELSE IF round_num < MAX_ROUNDS
       THEN /\ round_num' = round_num + 1
            /\ rr_i' = 1
            /\ bs_i' = 1
            /\ round_log' = <<>>
            /\ pc' = "cell"
            /\ UNCHANGED journal
       ELSE /\ pc' = "after_loop"
            /\ UNCHANGED <<round_num, rr_i, bs_i, journal, round_log>>
    /\ UNCHANGED <<args_dev, args_test, args_mode, rr0_4k_iops, rr65_64k_iops,
                   rr100_1024k_iops, dev_rate, dev_shifted>>
    /\ UNCHANGED confvars
    /\ UNCHANGED <<purge_runs, wipc_runs, fio_runs>>

\* faulty test after the loop: "if round_num == 26"
AfterLoop_26 ==
    /\ pc = "after_loop"
    /\ journal' = IF round_num = 26 THEN journal \cup {NOT_REACHED_MSG}
                  ELSE journal
    /\ pc' = "done"
    /\ UNCHANGED <<args_dev,
                   args_test, args_mode, round_num, rr_i, bs_i, rr0_4k_iops,
                   rr65_64k_iops, rr100_1024k_iops, dev_rate, dev_shifted>>
    /\ UNCHANGED confvars
    /\ UNCHANGED histvars

\* if round_num == 25: logging.info("steady state was not reached in 25 rounds")
AfterLoop ==
    /\ pc = "after_loop"
    /\ journal' = IF round_num = 25 THEN journal \cup {NOT_REACHED_MSG}
                  ELSE journal
    /\ pc' = "done"
    /\ UNCHANGED <<args_dev,
                   args_test, args_mode, round_num, rr_i, bs_i, rr0_4k_iops,
                   rr65_64k_iops, rr100_1024k_iops, dev_rate, dev_shifted>>
    /\ UNCHANGED confvars
    /\ UNCHANGED histvars

\* logging.error("Unable to run subprocess: ...") and the like
FAIL_MSG == "Unable to run subprocess"

\* faulty wrapper: the error is logged and the caller goes on; in the loop the
\* cell is given up and the next one is run
CollaboratorFails_goes_on ==
    /\ \/ pc \in {"record", "conditions", "cell"}
       \/ pc \in {"purge", "wipc"} /\ ~args_test
    /\ journal' = journal \cup {FAIL_MSG}
    /\ IF pc = "cell"
       THEN /\ IF bs_i < Len(BLOCK_SIZES)
               THEN /\ bs_i' = bs_i + 1
                    /\ UNCHANGED <<rr_i, pc>>
               ELSE IF rr_i < Len(READ_RATES)
               THEN /\ rr_i' = rr_i + 1
                    /\ bs_i' = 1
                    /\ UNCHANGED pc
               ELSE /\ pc' = "aborted"
                    /\ UNCHANGED <<rr_i, bs_i>>
       ELSE /\ pc' = "aborted"
            /\ UNCHANGED <<rr_i, bs_i>>
    /\ UNCHANGED <<args_dev, args_test, args_mode, round_num, rr0_4k_iops,
                   rr65_64k_iops, rr100_1024k_iops, dev_rate, dev_shifted>>
    /\ UNCHANGED confvars
    /\ UNCHANGED histvars

\* a subprocess fails or a file cannot be read or written: the error is
\* logged and sys.exit(1) ends the session
CollaboratorFails ==
    /\ \/ pc \in {"record", "conditions", "cell"}
       \/ pc \in {"purge", "wipc"} /\ ~args_test
    /\ journal' = journal \cup {FAIL_MSG}
    /\ pc' = "aborted"
    /\ UNCHANGED <<args_dev,
                   args_test, args_mode, round_num, rr_i, bs_i, rr0_4k_iops,
                   rr65_64k_iops, rr100_1024k_iops, dev_rate, dev_shifted>>
    /\ UNCHANGED confvars
    /\ UNCHANGED histvars

SNext ==
    \/ RecordConditions
    \/ FeaturesUnmatched
    \/ Purge
    \/ SetConditions
    \/ Wipc
    \/ RunCell
    \/ CheckSteadyState
    \/ AfterLoop
    \/ CollaboratorFails

\* the variables of the evaluation harness at rest
EvIdle ==
    /\ ev_pc = "idle"
    /\ ev_values = <<>>
    /\ ev_window = MEASUREMENT_WINDOW
    /\ ev_result = "none"
    /\ ev_log = "none"
    /\ sample_base = 0
    /\ sample_step = 1

\* no second session
TwinOff == [pc |-> "off", round_num |-> 0, fio_runs |-> 0, journal |-> {}]

Init == SInit /\ EvIdle /\ twin = TwinOff

Next == SNext /\ UNCHANGED evars /\ UNCHANGED twin

Spec == Init /\ [][Next]_vars

\* every call of a collaborator returns: the step the session is at is taken
SpecLive == Init /\ [][Next]_vars /\ WF_vars(Next)

(***************************************************************************)
(* Two sessions of iops(args) side by side.  The second, the twin, is      *)
(* given the same arguments, the same namespace, the same results of fio   *)
(* and the same failures of calls as the first; the output of nvme         *)
(* get-feature is its own and differs from that of the first.  Of its      *)
(* state the position, the round, the count of WDPC runs and the errors    *)
(* logged are kept.                                                        *)
(***************************************************************************)
TwinInit == twin = [pc |-> "record", round_num |-> 0, fio_runs |-> 0,
                    journal |-> {}]

\* the twin is where the session is
InStep ==
    /\ twin.pc = pc
    /\ twin.round_num = round_num
    /\ twin.fio_runs = fio_runs
    /\ twin.journal = journal

\* the twin records the test conditions with its own output of nvme
\* get-feature
TwinRecord(lines) ==
    twin' = [twin EXCEPT
                !.pc = AfterRecord(lines),
                !.journal = IF FeaturesMatch(lines) THEN @
                            ELSE @ \cup {UNMATCHED_MSG}]

\* a step of iops() that reads no output of nvme get-feature takes the twin
\* where it takes the session; a twin that has left the session behind, or
\* has been left behind, is not followed further
TwinFollows ==
    twin' = IF InStep
            THEN [pc |-> pc', round_num |-> round_num', fio_runs |-> fio_runs',
                  journal |-> journal']
            ELSE twin

\* both sessions record the test conditions
PairRecord ==
    \E lines, twin_lines \in FeatureOutputs :
        /\ lines # twin_lines
        /\ RecordConditionsOn(lines) \/ FeaturesUnmatchedOn(lines)
        /\ TwinRecord(twin_lines)

\* both sessions take a step after the conditions are recorded, or a call
\* fails in both
PairStep ==
    /\ \/ Purge
       \/ SetConditions
       \/ Wipc
       \/ RunCell
       \/ CheckSteadyState
       \/ AfterLoop
       \/ CollaboratorFails
    /\ TwinFollows

PairInit == SInit /\ EvIdle /\ TwinInit

PairNext == (PairRecord \/ PairStep) /\ UNCHANGED evars

SpecPair == PairInit /\ [][PairNext]_vars

(***************************************************************************)
(* in_steady_state called on its own, on bounded lists of samples          *)
(***************************************************************************)
WindowSizes == {3, MEASUREMENT_WINDOW}

SampleBases == {0, 40}

SampleSteps == {1, 2}

\* iops() at rest
SIdle ==
    /\ pc = "off"
    /\ args_dev = "none"
    /\ args_test = FALSE
    /\ args_mode = "PTS-C"
    /\ round_num = 0
    /\ rr_i = 0
    /\ bs_i = 0
    /\ rr0_4k_iops = <<>>
    /\ rr65_64k_iops = <<>>
    /\ rr100_1024k_iops = <<>>
    /\ journal = {}
    /\ dev_rate = [c \in TrackedCells |-> NominalRate]
    /\ dev_shifted = FALSE
    /\ physical_size = 0
    /\ active_range = 0
    /\ queue_depth = 0
    /\ thread_count = 0
    /\ runtime = "unset"
    /\ io_size = 0
    /\ seed = "unset"
    /\ purge_runs = 0
    /\ wipc_runs = 0
    /\ fio_runs = 0
    /\ round_log = <<>>

EInit ==
    /\ ev_pc = "build"
    /\ ev_values = <<>>
    /\ ev_window \in WindowSizes
    /\ ev_result = "none"
    /\ ev_log = "none"
    /\ sample_base \in SampleBases
    /\ sample_step \in SampleSteps

\* the caller appends a sample to the list
EvAppend ==
    /\ ev_pc = "build"
    /\ Len(ev_values) < MaxLen
    /\ \E d \in (-MaxDev)..MaxDev :
          ev_values' = Append(ev_values, sample_base + d * sample_step)
    /\ UNCHANGED <<ev_pc, ev_window, ev_result, ev_log, sample_base,
                   sample_step>>

\* in_steady_state(ev_values, ev_window) is called and returns or raises
EvCall ==
    /\ ev_pc = "build"
    /\ ev_pc' = "returned"
    /\ IF in_steady_state_raises(ev_values, ev_window)
       THEN /\ ev_result' = "raised"
            /\ ev_log' = "a) passed"
       ELSE /\ ev_result' = IF in_steady_state(ev_values, ev_window)
                            THEN "True" ELSE "False"
            /\ ev_log' = in_steady_state_log(ev_values, ev_window)
    /\ UNCHANGED <<ev_values, ev_window, sample_base, sample_step>>

ENext == EvAppend \/ EvCall

EvalInit == SIdle /\ EInit /\ twin = TwinOff

EvalNext == ENext /\ UNCHANGED svars /\ UNCHANGED twin

SpecEval == EvalInit /\ [][EvalNext]_vars

(***************************************************************************)
(* The steady state criteria of SSS PTS 2.1.24, stated on the measurement  *)
(* window of the list under evaluation with positions 1..window_size       *)
(***************************************************************************)
\* the i-th value of the measurement window of ev_values
WinY(i) == ev_values[Len(ev_values) - ev_window + i]

WinSet == {WinY(i) : i \in 1..ev_window}

WinMax == CHOOSE m \in WinSet : \A v \in WinSet : v <= m

WinMin == CHOOSE m \in WinSet : \A v \in WinSet : m <= v

WinRange == WinMax - WinMin

RECURSIVE WinSumTo(_)
WinSumTo(k) == IF k = 0 THEN 0 ELSE WinY(k) + WinSumTo(k - 1)

\* window_size * Ave(y)
WinSum == WinSumTo(ev_window)

\* twice the distance of position i from the middle of the window
WinC(i) == 2 * i - (ev_window + 1)

RECURSIVE WinMomentTo(_)
WinMomentTo(k) == IF k = 0 THEN 0 ELSE WinC(k) * WinY(k) + WinMomentTo(k - 1)

RECURSIVE WinSpreadTo(_)
WinSpreadTo(k) == IF k = 0 THEN 0 ELSE WinC(k) * WinC(k) + WinSpreadTo(k - 1)

\* the least-squares slope is 2 * WinMoment / WinSpread
WinMoment == WinMomentTo(ev_window)

WinSpread == WinSpreadTo(ev_window)

\* a) Max(y) - Min(y) < 0.2 * Ave(y)
CriterionA == 5 * ev_window * WinRange < WinSum

\* b) |slope| * (window_size - 1) < 0.1 * Ave(y)
CriterionB ==
    20 * ev_window * (ev_window - 1) * Abs(WinMoment) < WinSpread * WinSum

EvReturnedOnWindow ==
    /\ ev_pc = "returned"
    /\ Len(ev_values) >= ev_window

\* C4: for every list of at least window_size values, in_steady_state returns
\* True if and only if, over the last window_size values, the range is
\* strictly below 0.2 * avg and |slope| * (window_size - 1) is strictly below
\* 0.1 * avg; failing either one yields False.
C4_BothCriteria ==
    EvReturnedOnWindow =>
        /\ ev_result \in {"True", "False"}
        /\ (ev_result = "True") <=> (CriterionA /\ CriterionB)

\* a list longer than the window, found steady although its window is neither
\* flat nor free of trend
C4_Witness ==
    /\ EvReturnedOnWindow
    /\ Len(ev_values) > ev_window
    /\ ev_result = "True"
    /\ WinRange > 0
    /\ WinMoment # 0

\* C5: a window whose range is exactly 0.2 * avg is not in steady state.
C5_RangeBoundary ==
    (EvReturnedOnWindow /\ 5 * ev_window * WinRange = WinSum) =>
        ev_result = "False"

\* the range of [40, 36, 44, 40, 40] is 8 = 0.2 * 40, its fit is well below
\* 0.1 * 40
C5_Witness ==
    /\ EvReturnedOnWindow
    /\ 5 * ev_window * WinRange = WinSum
    /\ WinRange > 0
    /\ CriterionB
    /\ ev_result = "False"

\* the values of the window rise by the same amount d > 0 at every position
WinRisesBy(d) ==
    /\ d > 0
    /\ \A i \in 1..(ev_window - 1) : WinY(i + 1) - WinY(i) = d

\* C6: a monotonically increasing window of constant slope s with
\* s * (window_size - 1) exactly 0.1 * avg is not in steady state, and it is
\* check b) that fails: check a) passes.
C6_FitBoundary ==
    EvReturnedOnWindow =>
        LET d == WinY(2) - WinY(1)
        IN  (WinRisesBy(d) /\ 10 * ev_window * (ev_window - 1) * d = WinSum)
                => (ev_result = "False" /\ ev_log = "b) failed")

\* [38, 39, 40, 41, 42]: slope 1, 1 * 4 = 0.1 * 40
C6_Witness ==
    /\ EvReturnedOnWindow
    /\ WinRisesBy(1)
    /\ 10 * ev_window * (ev_window - 1) = WinSum
    /\ CriterionA
    /\ ev_result = "False"

\* C7: a list shorter than window_size, the empty list included, is not in
\* steady state whatever its values, and the call does not raise.
C7_ShortList ==
    (ev_pc = "returned" /\ Len(ev_values) < ev_window) =>
        /\ ev_result = "False"
        /\ ev_log = "list too short"

\* a list of window_size - 1 equal positive samples
C7_Witness ==
    /\ ev_pc = "returned"
    /\ Len(ev_values) = ev_window - 1
    /\ \A i \in 1..Len(ev_values) : ev_values[i] = ev_values[1] /\ ev_values[i] > 0
    /\ ev_result = "False"

\* C8 as stated: a window of window_size equal values v, v # 0, is in steady
\* state.
C8_AnyNonzeroConstant ==
    (EvReturnedOnWindow /\ WinRange = 0 /\ WinY(1) # 0) => ev_result = "True"

\* C8 amended: a window of window_size equal values v, v > 0, is in steady
\* state.
C8_PositiveConstant ==
    (EvReturnedOnWindow /\ WinRange = 0 /\ WinY(1) > 0) => ev_result = "True"

\* a list longer than the window that ends in window_size equal positive values
C8_Witness ==
    /\ EvReturnedOnWindow
    /\ Len(ev_values) > ev_window
    /\ WinRange = 0
    /\ WinY(1) > 0
    /\ ev_values[1] # WinY(1)
    /\ ev_result = "True"

\* check a) has passed: the call got beyond it
PassedRangeCheck ==
    ev_log \in {"a) passed", "b) failed", "all checks passed, in steady state"}

\* C9 as stated: with a window average of 0 the call does not raise, a window
\* of nonzero range fails check a), and a window of zero range passes it.
C9_ZeroAverage ==
    (EvReturnedOnWindow /\ WinSum = 0) =>
        /\ ev_result # "raised"
        /\ (WinRange # 0) => (ev_log = "a) failed")
        /\ (WinRange = 0) => PassedRangeCheck

\* C9 amended: with a window average of 0 the call does not raise and the
\* window fails check a) whatever its range, the all-zero window included
\* (0 >= 0.2 * 0), so the list is not in steady state.
C9_ZeroAverageFails ==
    (EvReturnedOnWindow /\ WinSum = 0) =>
        /\ ev_result = "False"
        /\ ev_log = "a) failed"

\* the all-zero window
C9_Witness ==
    /\ EvReturnedOnWindow
    /\ WinSum = 0
    /\ WinRange = 0
    /\ ev_result = "False"

(***************************************************************************)
(* The round loop                                                          *)
(***************************************************************************)
\* C1: the loop is left by "steady state, breaking the loop" after a round if
\* and only if each of the three lists is in steady state with window 5 after
\* that round; with one of them not in steady state it is not.
C1_Convergence ==
    [][/\ (pc = "check") =>
            ((pc' = "after_loop" /\ STEADY_MSG \in journal')
                <=> (/\ in_steady_state(rr0_4k_iops, 5)
                     /\ in_steady_state(rr65_64k_iops, 5)
                     /\ in_steady_state(rr100_1024k_iops, 5)))
       /\ (STEADY_MSG \in journal' /\ STEADY_MSG \notin journal) =>
            (pc = "check" /\ pc' = "after_loop")]_vars

\* the loop is left in steady state after the device had changed a rate
C1_Witness ==
    /\ pc = "after_loop"
    /\ STEADY_MSG \in journal
    /\ round_num > 5
    /\ dev_shifted

\* C2: "steady state was not reached in 25 rounds" is reported only when round
\* 25 ends with a list not in steady state; a session whose three lists are in
\* steady state after its last round, round 25 included, reports the steady
\* state and does not report that it was not reached.
C2_ReportedOutcome ==
    (pc = "done") =>
        /\ (NOT_REACHED_MSG \in journal) => (round_num = 25 /\ ~AllSteady)
        /\ AllSteady =>
              (STEADY_MSG \in journal /\ NOT_REACHED_MSG \notin journal)

\* C3: round n + 1 is started exactly when round n has ended with a list not
\* in steady state and n < 25; rounds are numbered 1, 2, ... without a gap or
\* a repeat and no round above 25 is run.
C3_Rounds ==
    [][/\ round_num' \in 0..25
       /\ (round_num' # round_num) =>
            /\ round_num' = round_num + 1
            /\ pc' = "cell" /\ rr_i' = 1 /\ bs_i' = 1
            /\ IF round_num = 0 THEN pc = "wipc"
               ELSE pc = "check" /\ ~AllSteady /\ round_num < 25
       /\ (pc = "check" /\ ~AllSteady /\ round_num < 25) =>
            round_num' = round_num + 1
       /\ (pc' = "cell" /\ pc # "cell") => round_num' = round_num + 1]_vars

\* round 25 has been started
C3_Witness ==
    /\ round_num = 25
    /\ pc = "cell"
    /\ rr_i = 1
    /\ bs_i = 1

\* C10: wherever a round has just ended, each of the three lists is as long
\* as the number of rounds run.
C10_SeriesLength ==
    (pc \in {"check", "after_loop", "done"}) =>
        /\ Len(rr0_4k_iops) = round_num
        /\ Len(rr65_64k_iops) = round_num
        /\ Len(rr100_1024k_iops) = round_num

\* the end of round 7
C10_Witness ==
    /\ pc = "check"
    /\ round_num = 7
    /\ Len(rr0_4k_iops) = 7

(***************************************************************************)
(* The lists, the workload matrix, the steps before the loop               *)
(***************************************************************************)
IsPrefix(s, t) == Len(s) <= Len(t) /\ SubSeq(t, 1, Len(s)) = s

\* C11: the three lists are append-only: in every step each list keeps what
\* it held as a prefix, and the check at the end of a round changes none.
C11_AppendOnly ==
    [][/\ IsPrefix(rr0_4k_iops, rr0_4k_iops')
       /\ IsPrefix(rr65_64k_iops, rr65_64k_iops')
       /\ IsPrefix(rr100_1024k_iops, rr100_1024k_iops')
       /\ (pc = "check") => UNCHANGED <<rr0_4k_iops, rr65_64k_iops,
                                        rr100_1024k_iops>>]_vars

\* round 8 is under way: the lists have been through seven checks
C11_Witness ==
    /\ pc = "cell"
    /\ round_num = 8
    /\ Len(rr100_1024k_iops) = 8
    /\ Len(rr0_4k_iops) = 7

\* the k-th cell of a round: mix 100, 95, 65, 50, 35, 5, 0 outside, block size
\* 1024k, 128k, 64k, 32k, 16k, 8k, 4k, 512b inside
MatrixCell(k) ==
    << <<100, 95, 65, 50, 35, 5, 0>>[((k - 1) \div 8) + 1],
       <<"1024k", "128k", "64k", "32k", "16k", "8k", "4k", "512b">>
            [((k - 1) % 8) + 1] >>

LogCell(k) == <<round_log[k].rr, round_log[k].bs>>

\* C12: a round that has ended has run the workload once for each of the 56
\* cells, none twice and none left out, mix ratio outside and block size
\* inside, and every round in the same order.
C12_Matrix ==
    /\ Len(round_log) <= 56
    /\ \A k \in 1..Len(round_log) : LogCell(k) = MatrixCell(k)
    /\ (pc \in {"check", "after_loop", "done"}) =>
            /\ Len(round_log) = 56
            /\ Cardinality({LogCell(k) : k \in 1..56}) = 56
    /\ (round_num >= 1) => (fio_runs = 56 * (round_num - 1) + Len(round_log))

\* the end of round 2
C12_Witness ==
    /\ pc = "check"
    /\ round_num = 2
    /\ Len(round_log) = 56
    /\ fio_runs = 112

\* all the values of the list are the same
IsConstant(values) == \A i \in 1..Len(values) : values[i] = values[1]

\* all the values of the list are the same positive value
IsPositiveConstant(values) ==
    \A i \in 1..Len(values) : values[i] = values[1] /\ values[i] > 0

\* C13 as stated: a session in which each tracked cell returns the same
\* blended IOPS in every round runs 5 rounds and leaves the loop in steady
\* state.
C13_ConstantConverges ==
    (/\ IsConstant(rr0_4k_iops)
     /\ IsConstant(rr65_64k_iops)
     /\ IsConstant(rr100_1024k_iops)) =>
        /\ round_num <= 5
        /\ (pc \in {"after_loop", "done"}) =>
              (round_num = 5 /\ STEADY_MSG \in journal)

\* C13 amended: a session in which each tracked cell returns the same positive
\* blended IOPS in every round runs 5 rounds and leaves the loop in steady
\* state.
C13_PositiveConstantConverges ==
    (/\ IsPositiveConstant(rr0_4k_iops)
     /\ IsPositiveConstant(rr65_64k_iops)
     /\ IsPositiveConstant(rr100_1024k_iops)) =>
        /\ round_num <= 5
        /\ (pc \in {"after_loop", "done"}) =>
              (round_num = 5 /\ STEADY_MSG \in journal)

\* the loop has been left with three lists of five equal positive values
C13_Witness ==
    /\ pc = "after_loop"
    /\ Len(rr0_4k_iops) = 5
    /\ IsPositiveConstant(rr0_4k_iops)
    /\ IsPositiveConstant(rr65_64k_iops)
    /\ IsPositiveConstant(rr100_1024k_iops)
    /\ STEADY_MSG \in journal

\* the three lists as they were after round n
SteadyAfterRound(n) ==
    /\ in_steady_state(SubSeq(rr0_4k_iops, 1, n), 5)
    /\ in_steady_state(SubSeq(rr65_64k_iops, 1, n), 5)
    /\ in_steady_state(SubSeq(rr100_1024k_iops, 1, n), 5)

\* after every round run, one of the lists was not in steady state
NeverSteady == \A n \in 1..round_num : ~SteadyAfterRound(n)

\* C14: a session in which a list is not in steady state after every round
\* runs 25 rounds, 1400 workload runs, and ends without an error with
\* "steady state was not reached in 25 rounds".
C14_Exhaustion ==
    [][/\ (pc' \in {"after_loop", "done"} /\ NeverSteady') =>
            /\ round_num' = 25
            /\ fio_runs' = 25 * 56
            /\ STEADY_MSG \notin journal'
            /\ FAIL_MSG \notin journal'
            /\ (pc' = "done") => (NOT_REACHED_MSG \in journal')
       /\ (pc = "check" /\ round_num = 25 /\ ~SteadyAfterRound(25)) =>
            pc' = "after_loop"
       /\ (pc = "after_loop") => (pc' = "done")]_vars

\* the session has ended after 25 rounds without steady state
C14_Witness ==
    /\ pc = "done"
    /\ round_num = 25
    /\ NeverSteady
    /\ journal = {NOT_REACHED_MSG}

\* the runs of nvme format and of the WIPC job so far
PurgeAndWipcInOrder ==
    /\ args_test => (purge_runs = 0 /\ wipc_runs = 0)
    /\ wipc_runs <= purge_runs
    /\ purge_runs <= 1
    /\ (fio_runs > 0 /\ ~args_test) => (wipc_runs = 1)
    /\ (~args_test /\ pc \in {"conditions", "wipc"}) =>
            (purge_runs = 1 /\ wipc_runs = 0)
    /\ (~args_test /\ pc \in {"cell", "check", "after_loop", "done"}) =>
            (purge_runs = 1 /\ wipc_runs = 1)

\* C15: without the test flag nvme format is run once, before the WIPC job,
\* and the WIPC job once, before the first cell of round 1, and neither again
\* in the loop; with the test flag neither is run and the loop is entered all
\* the same.
C15_PurgeAndWipc ==
    [][/\ PurgeAndWipcInOrder
       /\ PurgeAndWipcInOrder'
       /\ (pc \in {"cell", "check", "after_loop"}) =>
            UNCHANGED <<purge_runs, wipc_runs>>
       /\ (args_test /\ pc = "wipc") => (pc' = "cell" /\ round_num' = 1)]_vars

\* round 2 of a session without the test flag has ended
C15_Witness ==
    /\ ~args_test
    /\ pc = "check"
    /\ round_num = 2
    /\ purge_runs = 1
    /\ wipc_runs = 1

\* C16: when a call of a collaborator fails the session ends there: the call
\* is not repeated, the cell is not given up for the next one, no workload is
\* run and no list is checked afterwards, and neither outcome is reported.
C16_FailureAborts ==
    [][/\ (FAIL_MSG \in journal) => UNCHANGED vars
       /\ (FAIL_MSG \in journal') =>
            /\ pc' = "aborted"
            /\ STEADY_MSG \notin journal'
            /\ NOT_REACHED_MSG \notin journal'
            /\ UNCHANGED <<round_num, rr_i, bs_i, rr0_4k_iops, rr65_64k_iops,
                           rr100_1024k_iops, purge_runs, wipc_runs, fio_runs,
                           round_log>>]_vars

\* a call has failed in the tenth cell of round 3
C16_Witness ==
    /\ pc = "aborted"
    /\ FAIL_MSG \in journal
    /\ round_num = 3
    /\ Len(round_log) = 9

\* the session, or the twin, is over
Over(position) == position \in {"done", "aborted"}

ConditionsJob(k) ==
    [device |-> args_dev,
     queue_depth |-> queue_depth,
     thread_count |-> thread_count,
     seed |-> seed,
     size |-> active_range,
     read_rate |-> MatrixCell(k)[1],
     block_size |-> MatrixCell(k)[2],
     runtime |-> runtime]

\* the test conditions are those of the mode and of the test flag
ConditionsDerived ==
    /\ queue_depth = (IF args_mode = "PTS-E" THEN 32 ELSE 16)
    /\ thread_count = (IF args_mode = "PTS-E" THEN 4 ELSE 2)
    /\ active_range = (IF args_mode = "PTS-E" THEN physical_size
                       ELSE (3 * physical_size) \div 4)
    /\ runtime = (IF args_test THEN "10s" ELSE "1m")
    /\ seed = "0xDEADBEEF"

\* C21: queue depth, thread count, active range, seed, runtime and device are
\* set from the mode and the test flag in one step before the loop and no run
\* of a cell, end of a round or check of the lists changes them; every WDPC
\* job of every round is given these same values, and the read rate and the
\* block size of its cell.
C21_Configuration ==
    [][/\ (<<queue_depth, thread_count, active_range, seed, runtime>>' #
            <<queue_depth, thread_count, active_range, seed, runtime>>) =>
            (pc = "conditions" /\ round_num = 0)
       /\ UNCHANGED <<args_dev, args_mode, args_test>>
       /\ (pc \in {"cell", "check", "after_loop"}) =>
            /\ ConditionsDerived
            /\ UNCHANGED <<args_dev, queue_depth, thread_count, active_range,
                           seed, runtime>>
       /\ \A k \in 1..Len(round_log') :
            round_log'[k].job = ConditionsJob(k)']_vars

\* round 3 of a session in enterprise mode has ended
C21_Witness ==
    /\ pc = "check"
    /\ round_num = 3
    /\ args_mode = "PTS-E"
    /\ Len(round_log) = 56
    /\ round_log[1].job.queue_depth = 32
    /\ round_log[56].job.queue_depth = 32
    /\ round_log[56].job.block_size = "512b"
    /\ round_log[56].job.size = physical_size

\* C22: with every call returning, every session comes to its end, in steady
\* state, after 25 rounds or by an error, after at most 25 * 56 WDPC runs;
\* from the end of the loop on no WDPC job is run, no list is appended to or
\* checked, and after the end nothing is done at all.
C22_Termination ==
    /\ <>(pc \in {"done", "aborted"})
    /\ [](fio_runs <= 25 * 56)
    /\ [][/\ (pc \in {"after_loop", "done", "aborted"}) =>
              /\ UNCHANGED <<fio_runs, round_log, round_num, rr0_4k_iops,
                             rr65_64k_iops, rr100_1024k_iops>>
              /\ pc' \notin {"cell", "check"}
          /\ (pc \in {"done", "aborted"}) => UNCHANGED vars]_vars

\* a session has come to its end after 25 * 56 WDPC runs
C22_Witness ==
    /\ pc = "done"
    /\ fio_runs = 25 * 56
    /\ NOT_REACHED_MSG \in journal

\* C23: whatever the WDPC runs return, the steady state is not declared before
\* round 5 has ended: a session that has left the loop has run five rounds of
\* 56 WDPC jobs at least.
C23_NoEarlyConvergence ==
    /\ (STEADY_MSG \in journal) => (round_num >= 5 /\ pc # "cell")
    /\ (pc \in {"after_loop", "done"}) =>
            /\ round_num >= 5
            /\ fio_runs >= 5 * 56
            /\ Len(rr0_4k_iops) >= 5
            /\ Len(rr65_64k_iops) >= 5
            /\ Len(rr100_1024k_iops) >= 5
    /\ (pc = "check" /\ round_num < 5) => ~AllSteady

\* a session is over in steady state after five rounds in which the device
\* has changed a rate
C23_Witness ==
    /\ pc = "done"
    /\ round_num = 5
    /\ fio_runs = 5 * 56
    /\ journal = {STEADY_MSG}
    /\ dev_shifted

(***************************************************************************)
(* The measurement window alone                                            *)
(***************************************************************************)
\* the last ev_window values of ev_values
Window == [i \in 1..ev_window |-> ev_values[Len(ev_values) - ev_window + i]]

\* values a list may hold before its measurement window
PrefixSamples == {0, 41, 1000}

\* the lists of any length that end with the measurement window of ev_values
ListsWithWindow ==
    {pre \o Window :
        pre \in UNION {[1..n -> PrefixSamples] : n \in 0..MaxPrefix}}

\* C24: the value in_steady_state returns for a list at least as long as the
\* window is that of every list, shorter or longer, that ends with the same
\* window_size values, whatever comes before them and although the round
\* numbers the line is fitted to are others.
C24_WindowOnly ==
    (ev_pc = "returned" /\ Len(ev_values) >= ev_window) =>
        \A other \in ListsWithWindow :
            /\ ~in_steady_state_raises(other, ev_window)
            /\ in_steady_state(other, ev_window) <=> (ev_result = "True")

\* a list of six has been found in steady state by its last three values;
\* its first three are not in steady state
C24_Witness ==
    /\ ev_pc = "returned"
    /\ ev_window = 3
    /\ Len(ev_values) = 6
    /\ ev_result = "True"
    /\ ~in_steady_state(SubSeq(ev_values, 1, 3), 3)
    /\ Window # SubSeq(ev_values, 1, 3)

\* C18: the I/O volume of the WIPC job over all threads, thread_count times
\* io_size, is exactly twice the physical size, in both modes.
C18_WipcVolume ==
    (io_size > 0) => (thread_count * io_size = 2 * physical_size)

\* C19: the n-th value of each list is the blended IOPS of its own cell in
\* round n; no other cell is appended to a list and no cell to the list of
\* another.
C19_OwnCell ==
    (round_num >= 1 /\ pc # "wipc") =>
        LET ran(rr, bs) ==
                {k \in 1..Len(round_log) :
                    round_log[k].rr = rr /\ round_log[k].bs = bs}
            own(values, rr, bs) ==
                /\ Len(values) = round_num - 1 + Cardinality(ran(rr, bs))
                /\ \A k \in ran(rr, bs) :
                      values[round_num] = round_log[k].iops
        IN  /\ own(rr0_4k_iops, 0, "4k")
            /\ own(rr65_64k_iops, 65, "64k")
            /\ own(rr100_1024k_iops, 100, "1024k")

\* round 6 has ended with different values in two lists
C19_Witness ==
    /\ pc = "check"
    /\ round_num = 6
    /\ rr0_4k_iops[6] # rr65_64k_iops[6]
    /\ rr0_4k_iops[6] > 0

\* C20: for every cell 100 * iops = mix * read IOPS + (100 - mix) * write
\* IOPS; the value of the 0% read / 4k list is the write IOPS alone and the
\* value of the 100% read / 1024k list the read IOPS alone.
C20_Blend ==
    \A k \in 1..Len(round_log) :
        LET e == round_log[k]
        IN  /\ e.iops = e.rr * e.read + (100 - e.rr) * e.write
            /\ (e.rr = 0 /\ e.bs = "4k") =>
                  rr0_4k_iops[round_num] = 100 * e.write
            /\ (e.rr = 100 /\ e.bs = "1024k") =>
                  rr100_1024k_iops[round_num] = 100 * e.read

\* the 0% read / 4k cell has run and reported writes only
C20_Witness ==
    /\ Len(round_log) >= 55
    /\ round_log[55].rr = 0
    /\ round_log[55].read = 0
    /\ round_log[55].write > 0
    /\ round_log[19].read > 0
    /\ round_log[19].write > 0

====
